---- MODULE Spec2Model ----
(***************************************************************************)
(* Model of the package lifecycle manager of Star-Shell                    *)
(* (src/star/star.go): Install, ListInstalledStars, Uninstall and Update   *)
(* against the manifest file ./stars/.stars and the directory ./stars.     *)
(*                                                                         *)
(* Go strings are TLA+ strings. Where the code inspects one character by   *)
(* character (an asset name, the platform token) it is spelled out by      *)
(* Chars as a sequence of one-character strings.                           *)
(* A Go error is the sequence of the message prefixes it wraps, outermost  *)
(* first; nil is the empty sequence.                                       *)
(***************************************************************************)
EXTENDS Naturals, Sequences, FiniteSets

VARIABLES
  GOOS,       \* runtime.GOOS of the build, fixed for a run
  GOARCH,     \* runtime.GOARCH of the build, fixed for a run
  manifest,   \* the file ./stars/.stars: [kind, recs]
  files,      \* regular files under ./stars other than the manifest: name -> body
  dirExists,  \* whether ./stars exists
  last,       \* the most recent call: what it was given, found and returned
  nOps,       \* number of calls (of steps, for concurrent callers) made so far
  inflight    \* the Install each concurrent caller is in: caller -> [pc, ...]

vars == <<GOOS, GOARCH, manifest, files, dirExists, last, nOps, inflight>>

----------------------------------------------------------------------------
(* Bounds of the model *)

\* number of lifecycle calls in a run
MaxOps == 3
\* longest asset list of a release document
MaxAssets == 2

----------------------------------------------------------------------------
(* Strings *)

LowerLetters ==
  <<"a","b","c","d","e","f","g","h","i","j","k","l","m",
    "n","o","p","q","r","s","t","u","v","w","x","y","z">>
UpperLetters ==
  <<"A","B","C","D","E","F","G","H","I","J","K","L","M",
    "N","O","P","Q","R","S","T","U","V","W","X","Y","Z">>

\* unicode.ToLower on the letters above
LowerOf ==
  [c \in {UpperLetters[i] : i \in DOMAIN UpperLetters} |->
     LowerLetters[CHOOSE i \in DOMAIN UpperLetters : UpperLetters[i] = c]]

ToLowerChar(c) == IF c \in DOMAIN LowerOf THEN LowerOf[c] ELSE c

\* strings.ToLower
ToLower(s) == [i \in 1..Len(s) |-> ToLowerChar(s[i])]

\* strings.Contains
Contains(s, substr) ==
  \E i \in 0..Len(s) :
    /\ i + Len(substr) <= Len(s)
    /\ SubSeq(s, i + 1, i + Len(substr)) = substr

----------------------------------------------------------------------------
(* The worlds the program runs in *)

\* operating systems and architectures among those the Makefile builds for,
\* and the placeholder the platform check of Install looks for
SupportedOS   == {"linux", "darwin"}
SupportedArch == {"amd64"}
OSNames   == SupportedOS \cup {"unknown"}
ArchNames == SupportedArch \cup {"unknown"}

Users == {"alice", "bob"}
Repos == {"tool"}
Tags  == {"v1", "v2"}

\* where the release tagged tag serves the asset called name
DownloadURL(tag, name) ==
  CASE tag = "v1" /\ name = "tool-darwin-amd64" -> "dl/v1/tool-darwin-amd64"
    [] tag = "v1" /\ name = "tool-linux-amd64"  -> "dl/v1/tool-linux-amd64"
    [] tag = "v1" /\ name = "Tool-Linux-AMD64"  -> "dl/v1/Tool-Linux-AMD64"
    [] tag = "v2" /\ name = "tool-darwin-amd64" -> "dl/v2/tool-darwin-amd64"
    [] tag = "v2" /\ name = "tool-linux-amd64"  -> "dl/v2/tool-linux-amd64"
    [] tag = "v2" /\ name = "Tool-Linux-AMD64"  -> "dl/v2/Tool-Linux-AMD64"

AssetNames == {"tool-darwin-amd64", "tool-linux-amd64", "Tool-Linux-AMD64"}

\* assets the release tagged tag may carry
AssetPool(tag) == {[Name |-> n, URL |-> DownloadURL(tag, n)] : n \in AssetNames}

\* the characters of the strings the code looks into
Chars(str) ==
  CASE str = "" -> <<>>
    [] str = "linux"   -> <<"l","i","n","u","x">>
    [] str = "darwin"  -> <<"d","a","r","w","i","n">>
    [] str = "amd64"   -> <<"a","m","d","6","4">>
    [] str = "unknown" -> <<"u","n","k","n","o","w","n">>
    [] str = "unknown-unknown" ->
         <<"u","n","k","n","o","w","n","-","u","n","k","n","o","w","n">>
    [] str = "tool-darwin-amd64" ->
         <<"t","o","o","l","-","d","a","r","w","i","n","-","a","m","d","6","4">>
    [] str = "tool-linux-amd64" ->
         <<"t","o","o","l","-","l","i","n","u","x","-","a","m","d","6","4">>
    [] str = "Tool-Linux-AMD64" ->
         <<"T","o","o","l","-","L","i","n","u","x","-","A","M","D","6","4">>

\* fmt.Sprintf("%s-%s", os, arch)
PlatformToken(os, arch) == Chars(os) \o <<"-">> \o Chars(arch)

\* getPlatform
getPlatform == PlatformToken(GOOS, GOARCH)

RECURSIVE SeqsUpTo(_, _)
SeqsUpTo(S, n) ==
  IF n = 0 THEN {<<>>}
  ELSE LET shorter == SeqsUpTo(S, n - 1)
       IN  shorter \cup {Append(s, x) : s \in {t \in shorter : Len(t) = n - 1}, x \in S}

\* the asset lists of a release: no two assets of a release share a name
AssetLists(tag) ==
  {s \in SeqsUpTo(AssetPool(tag), MaxAssets) :
     \A i, j \in DOMAIN s : s[i].Name = s[j].Name => i = j}

Docs == UNION {[TagName : {t}, Assets : AssetLists(t)] : t \in Tags}

\* what GET .../releases/latest can answer: no answer at all, a status with
\* no usable body, a 200 whose body does not decode, a 200 with a document
StatusOK == 200
NoDoc == [TagName |-> "", Assets |-> <<>>]
ReleaseResponses ==
  { [transport |-> FALSE, status |-> 0,        decodes |-> FALSE, doc |-> NoDoc],
    [transport |-> TRUE,  status |-> 404,      decodes |-> FALSE, doc |-> NoDoc],
    [transport |-> TRUE,  status |-> StatusOK, decodes |-> FALSE, doc |-> NoDoc] }
  \cup { [transport |-> TRUE, status |-> StatusOK, decodes |-> TRUE, doc |-> d] : d \in Docs }

\* what the asset download and the file system can do to one call
DownloadOutcomes == {"transport", "status", "create", "write", "ok"}
SaveOutcomes == {"create", "write", "ok"}
Envs ==
  [rel : ReleaseResponses, mkdirOK : BOOLEAN, dl : DownloadOutcomes,
   openOK : BOOLEAN, save : SaveOutcomes, removeOK : BOOLEAN]

\* a call's outcome is decided by the first step that fails, so the worlds
\* of one call are those with no failing step and those with exactly one
NoFault(rel) ==
  [rel |-> rel, mkdirOK |-> TRUE, dl |-> "ok", openOK |-> TRUE, save |-> "ok",
   removeOK |-> TRUE]
GoodResponses == {r \in ReleaseResponses : r.decodes}
InstallEnvs ==
  {NoFault(r) : r \in ReleaseResponses}
  \cup {[NoFault(r) EXCEPT !.mkdirOK = FALSE] : r \in GoodResponses}
  \cup {[NoFault(r) EXCEPT !.dl = o] : r \in GoodResponses, o \in DownloadOutcomes}
  \cup {[NoFault(r) EXCEPT !.openOK = FALSE] : r \in GoodResponses}
  \cup {[NoFault(r) EXCEPT !.save = o] : r \in GoodResponses, o \in SaveOutcomes}
AnyResponse == CHOOSE r \in ReleaseResponses : ~r.transport
UninstallEnvs ==
  {NoFault(AnyResponse)}
  \cup {[NoFault(AnyResponse) EXCEPT !.openOK = FALSE]}
  \cup {[NoFault(AnyResponse) EXCEPT !.removeOK = FALSE]}
  \cup {[NoFault(AnyResponse) EXCEPT !.save = o] : o \in SaveOutcomes}

----------------------------------------------------------------------------
(* Errors *)

Nil == <<>>
ErrNotExist == <<"os.ErrNotExist">>
ErrPermission == <<"os.ErrPermission">>

\* fmt.Errorf("msg: %w", err)
Wrap(msg, err) == <<msg>> \o err

\* errors.Is(err, os.ErrNotExist)
IsNotExist(err) == \E i \in DOMAIN err : err[i] = "os.ErrNotExist"

----------------------------------------------------------------------------
(* The manifest file *)

Package(user, repo) == [User |-> user, Repo |-> repo, Version |-> "", File |-> ""]

Missing    == [kind |-> "missing", recs |-> <<>>]
Truncated  == [kind |-> "corrupt", recs |-> <<>>]
JSONNull   == [kind |-> "null",    recs |-> <<>>]
JSONArray(packages) == [kind |-> "array", recs |-> packages]

\* json.NewEncoder(file).Encode(packages): a nil slice is written as null
Encode(packages) == IF packages = <<>> THEN JSONNull ELSE JSONArray(packages)

\* listInstalledPackages
listInstalledPackages(file, openOK) ==
  IF file.kind = "missing" THEN [packages |-> <<>>, err |-> ErrNotExist]
  ELSE IF ~openOK THEN [packages |-> <<>>, err |-> ErrPermission]
  ELSE IF file.kind = "corrupt"
       THEN [packages |-> <<>>, err |-> <<"failed to decode .stars file">>]
  ELSE [packages |-> file.recs, err |-> Nil]

\* saveInstalledPackages writing after what the file holds instead of
\* truncating it: records on disk that the caller did not read are kept
saveInstalledPackages_keepOnDisk(file, packages, outcome) ==
  IF outcome = "create" THEN [file |-> file, err |-> <<"failed to create .stars file">>]
  ELSE IF outcome = "write"
       THEN [file |-> Truncated, err |-> <<"failed to write to .stars file">>]
  ELSE [file |-> Encode(SelectSeq(file.recs,
                                  LAMBDA p : \A i \in DOMAIN packages : packages[i] # p)
                        \o packages),
        err |-> Nil]

\* saveInstalledPackages: os.Create truncates the file before Encode writes it
saveInstalledPackages(file, packages, outcome) ==
  IF outcome = "create" THEN [file |-> file, err |-> <<"failed to create .stars file">>]
  ELSE IF outcome = "write"
       THEN [file |-> Truncated, err |-> <<"failed to write to .stars file">>]
  ELSE [file |-> Encode(packages), err |-> Nil]

\* updateStarsFile putting the new record first
updateStarsFile_prepend(file, pkg, env) ==
  LET l == listInstalledPackages(file, env.openOK)
  IN  IF l.err # Nil /\ ~IsNotExist(l.err)
      THEN [file |-> file, err |-> Wrap("failed to list installed packages", l.err)]
      ELSE saveInstalledPackages(file, <<pkg>> \o l.packages, env.save)

\* updateStarsFile tolerating every error of the load, not only a missing file
updateStarsFile_anyLoadError(file, pkg, env) ==
  LET l == listInstalledPackages(file, env.openOK)
  IN  saveInstalledPackages(file, Append(l.packages, pkg), env.save)

\* updateStarsFile
updateStarsFile(file, pkg, env) ==
  LET l == listInstalledPackages(file, env.openOK)
  IN  IF l.err # Nil /\ ~IsNotExist(l.err)
      THEN [file |-> file, err |-> Wrap("failed to list installed packages", l.err)]
      ELSE saveInstalledPackages(file, Append(l.packages, pkg), env.save)

\* ListInstalledStars
ListInstalledStars(file, openOK) == listInstalledPackages(file, openOK)

----------------------------------------------------------------------------
(* Install *)

\* the asset loop without its break: the last matching asset wins
matchAsset_noBreak(assets, platform, i) ==
  LET M == {k \in DOMAIN assets : k >= i /\ Contains(ToLower(Chars(assets[k].Name)), platform)}
  IN  IF M = {} THEN [downloadURL |-> "", File |-> ""]
      ELSE LET k == CHOOSE k \in M : \A j \in M : j <= k
           IN  [downloadURL |-> assets[k].URL, File |-> assets[k].Name]

\* the asset loop of Install: first asset whose lower-cased name contains
\* the platform token
RECURSIVE matchAsset(_, _, _)
matchAsset(assets, platform, i) ==
  IF i > Len(assets) THEN [downloadURL |-> "", File |-> ""]
  ELSE IF Contains(ToLower(Chars(assets[i].Name)), platform)
       THEN [downloadURL |-> assets[i].URL, File |-> assets[i].Name]
       ELSE matchAsset(assets, platform, i + 1)

\* the file destPath holds after os.Create and io.Copy
Body(url, complete) == [from |-> url, complete |-> complete]

WriteFile(fs, name, body) ==
  [n \in DOMAIN fs \cup {name} |-> IF n = name THEN body ELSE fs[n]]

RemoveFile(fs, name) == [n \in DOMAIN fs \ {name} |-> fs[n]]

\* an HTTP GET: of the latest release of user/repo, or of an asset's URL
ReleaseURL(pkg) == [api |-> TRUE, user |-> pkg.User, repo |-> pkg.Repo, url |-> ""]
AssetURL(url) == [api |-> FALSE, user |-> "", repo |-> "", url |-> url]

\* downloadExecutable removing the destination when the copy fails
downloadExecutable_cleanup(fs, url, name, outcome) ==
  IF outcome = "transport"
  THEN [files |-> fs, err |-> <<"failed to download file">>, calls |-> <<AssetURL(url)>>]
  ELSE IF outcome = "status"
  THEN [files |-> fs, err |-> <<"failed to download file: status code">>, calls |-> <<AssetURL(url)>>]
  ELSE IF outcome = "create"
  THEN [files |-> fs, err |-> <<"failed to create file">>, calls |-> <<AssetURL(url)>>]
  ELSE IF outcome = "write"
  THEN [files |-> RemoveFile(fs, name),
        err |-> <<"failed to write file">>, calls |-> <<AssetURL(url)>>]
  ELSE [files |-> WriteFile(fs, name, Body(url, TRUE)), err |-> Nil, calls |-> <<AssetURL(url)>>]

\* downloadExecutable opening the destination exclusively: a file already at
\* the path is kept as it is
downloadExecutable_keepExisting(fs, url, name, outcome) ==
  IF outcome = "transport"
  THEN [files |-> fs, err |-> <<"failed to download file">>, calls |-> <<AssetURL(url)>>]
  ELSE IF outcome = "status"
  THEN [files |-> fs, err |-> <<"failed to download file: status code">>, calls |-> <<AssetURL(url)>>]
  ELSE IF outcome = "create"
  THEN [files |-> fs, err |-> <<"failed to create file">>, calls |-> <<AssetURL(url)>>]
  ELSE IF name \in DOMAIN fs
  THEN [files |-> fs,
        err |-> IF outcome = "write" THEN <<"failed to write file">> ELSE Nil,
        calls |-> <<AssetURL(url)>>]
  ELSE IF outcome = "write"
  THEN [files |-> WriteFile(fs, name, Body(url, FALSE)),
        err |-> <<"failed to write file">>, calls |-> <<AssetURL(url)>>]
  ELSE [files |-> WriteFile(fs, name, Body(url, TRUE)), err |-> Nil, calls |-> <<AssetURL(url)>>]

\* downloadExecutable
downloadExecutable(fs, url, name, outcome) ==
  IF outcome = "transport"
  THEN [files |-> fs, err |-> <<"failed to download file">>, calls |-> <<AssetURL(url)>>]
  ELSE IF outcome = "status"
  THEN [files |-> fs, err |-> <<"failed to download file: status code">>, calls |-> <<AssetURL(url)>>]
  ELSE IF outcome = "create"
  THEN [files |-> fs, err |-> <<"failed to create file">>, calls |-> <<AssetURL(url)>>]
  ELSE IF outcome = "write"
  THEN [files |-> WriteFile(fs, name, Body(url, FALSE)),
        err |-> <<"failed to write file">>, calls |-> <<AssetURL(url)>>]
  ELSE [files |-> WriteFile(fs, name, Body(url, TRUE)), err |-> Nil, calls |-> <<AssetURL(url)>>]

\* the result of a call: the error, the world it leaves, the requests it made
Result(err, st, calls, pkg) ==
  [err |-> err, manifest |-> st.manifest, files |-> st.files,
   dirExists |-> st.dirExists, calls |-> calls, pkg |-> pkg]

\* the world a call leaves
World(r) == [manifest |-> r.manifest, files |-> r.files, dirExists |-> r.dirExists]

\* Install up to the download of the asset: everything before the manifest step
InstallDownload(pkg, st, platform, env) ==
  IF platform = Chars("unknown-unknown")
  THEN Result(<<"unsupported platform">>, st, <<>>, pkg)
  ELSE LET rel == env.rel
           c1 == <<ReleaseURL(pkg)>>
       IN
  IF ~rel.transport
  THEN Result(<<"failed to fetch release">>, st, c1, pkg)
  ELSE IF rel.status # StatusOK
  THEN Result(<<"failed to fetch release: status code">>, st, c1, pkg)
  ELSE IF ~rel.decodes
  THEN Result(<<"failed to decode release data">>, st, c1, pkg)
  ELSE LET m == matchAsset(rel.doc.Assets, platform, 1)
           pkg1 == [pkg EXCEPT !.File = m.File]
       IN
  IF m.downloadURL = ""
  THEN Result(<<"no compatible release found for platform">> \o platform, st, c1, pkg1)
  ELSE LET pkg2 == [pkg1 EXCEPT !.Version = rel.doc.TagName] IN
  IF ~env.mkdirOK /\ ~st.dirExists
  THEN Result(<<"failed to create install directory">>, st, c1, pkg2)
  ELSE LET st1 == [st EXCEPT !.dirExists = TRUE]
           d == downloadExecutable(st1.files, m.downloadURL, pkg2.File, env.dl)
           st2 == [st1 EXCEPT !.files = d.files]
           c2 == c1 \o d.calls
       IN
  IF d.err # Nil
  THEN Result(Wrap("failed to download executable", d.err), st2, c2, pkg2)
  ELSE Result(Nil, st2, c2, pkg2)

\* Install
Install(pkg, st, platform, env) ==
  LET d == InstallDownload(pkg, st, platform, env) IN
  IF d.err # Nil
  THEN d
  ELSE LET u == updateStarsFile(d.manifest, d.pkg, env)
           st3 == [World(d) EXCEPT !.manifest = u.file]
       IN
  IF u.err # Nil
  THEN Result(Wrap("failed to update stars file", u.err), st3, d.calls, d.pkg)
  ELSE Result(Nil, st3, d.calls, d.pkg)

----------------------------------------------------------------------------
(* Uninstall and Update *)

\* filepath.Join(installDir, file)
installDir == "stars"
Join(dir, file) == <<dir, file>>

\* the lookup loop without its break: the last record with pkg's identity wins
findFilePath_noBreak(packages, pkg, i) ==
  LET M == {k \in DOMAIN packages :
              k >= i /\ packages[k].User = pkg.User /\ packages[k].Repo = pkg.Repo}
  IN  IF M = {} THEN <<>>
      ELSE Join(installDir, packages[CHOOSE k \in M : \A j \in M : j <= k].File)

\* the lookup loop of Uninstall: path of the first record with pkg's identity
RECURSIVE findFilePath(_, _, _)
findFilePath(packages, pkg, i) ==
  IF i > Len(packages) THEN <<>>
  ELSE IF packages[i].User = pkg.User /\ packages[i].Repo = pkg.Repo
       THEN Join(installDir, packages[i].File)
       ELSE findFilePath(packages, pkg, i + 1)

\* the filter loop stopping at the first record of pkg's identity: only that
\* record is left out
filterPackages_firstOnly(packages, pkg, i) ==
  LET M == {k \in DOMAIN packages :
              k >= i /\ packages[k].User = pkg.User /\ packages[k].Repo = pkg.Repo}
  IN  IF M = {} THEN SubSeq(packages, i, Len(packages))
      ELSE LET k == CHOOSE k \in M : \A j \in M : k <= j
           IN  SubSeq(packages, i, k - 1) \o SubSeq(packages, k + 1, Len(packages))

\* the filter loop dropped: the list as it was read is saved back
filterPackages_keepAll(packages, pkg, i) == packages

\* the filter loop of Uninstall: the records of every other identity
RECURSIVE filterPackages(_, _, _)
filterPackages(packages, pkg, i) ==
  IF i > Len(packages) THEN <<>>
  ELSE IF packages[i].User # pkg.User \/ packages[i].Repo # pkg.Repo
       THEN <<packages[i]>> \o filterPackages(packages, pkg, i + 1)
       ELSE filterPackages(packages, pkg, i + 1)

\* os.Remove of a regular file of the install directory
osRemove(fs, path, removeOK) ==
  IF path[2] \notin DOMAIN fs THEN [files |-> fs, err |-> ErrNotExist]
  ELSE IF ~removeOK THEN [files |-> fs, err |-> ErrPermission]
  ELSE [files |-> RemoveFile(fs, path[2]), err |-> Nil]

\* Uninstall with its two effects swapped: the manifest is rewritten first,
\* the executable removed after
Uninstall_saveFirst(pkg, st, env) ==
  LET l == listInstalledPackages(st.manifest, env.openOK) IN
  IF l.err # Nil
  THEN Result(Wrap("failed to list installed packages", l.err), st, <<>>, pkg)
  ELSE LET filePath == findFilePath(l.packages, pkg, 1) IN
  IF filePath = <<>>
  THEN Result(<<"package not found", pkg.User, pkg.Repo>>, st, <<>>, pkg)
  ELSE LET s == saveInstalledPackages(st.manifest, filterPackages(l.packages, pkg, 1),
                                      env.save)
           st1 == [st EXCEPT !.manifest = s.file]
       IN
  IF s.err # Nil
  THEN Result(Wrap("failed to update stars file", s.err), st1, <<>>, pkg)
  ELSE LET r == osRemove(st1.files, filePath, env.removeOK) IN
  IF r.err # Nil
  THEN Result(Wrap("failed to remove executable", r.err), st1, <<>>, pkg)
  ELSE Result(Nil, [st1 EXCEPT !.files = r.files], <<>>, pkg)

\* Uninstall
Uninstall(pkg, st, env) ==
  LET l == listInstalledPackages(st.manifest, env.openOK) IN
  IF l.err # Nil
  THEN Result(Wrap("failed to list installed packages", l.err), st, <<>>, pkg)
  ELSE LET filePath == findFilePath(l.packages, pkg, 1) IN
  IF filePath = <<>>
  THEN Result(<<"package not found", pkg.User, pkg.Repo>>, st, <<>>, pkg)
  ELSE LET r == osRemove(st.files, filePath, env.removeOK) IN
  IF r.err # Nil
  THEN Result(Wrap("failed to remove executable", r.err), st, <<>>, pkg)
  ELSE LET st1 == [st EXCEPT !.files = r.files]
           s == saveInstalledPackages(st1.manifest, filterPackages(l.packages, pkg, 1),
                                      env.save)
           st2 == [st1 EXCEPT !.manifest = s.file]
       IN
  IF s.err # Nil
  THEN Result(Wrap("failed to update stars file", s.err), st2, <<>>, pkg)
  ELSE Result(Nil, st2, <<>>, pkg)

\* Update in the other order: Install first, Uninstall once it has succeeded
Update_installFirst(pkg, st, platform, envU, envI) ==
  LET r == Install(pkg, st, platform, envI) IN
  IF r.err # Nil
  THEN r
  ELSE LET u == Uninstall(pkg, World(r), envU)
       IN  [u EXCEPT !.calls = r.calls]

\* Update
Update(pkg, st, platform, envU, envI) ==
  LET u == Uninstall(pkg, st, envU) IN
  IF u.err # Nil
  THEN [u EXCEPT !.err = Wrap("failed to uninstall package", u.err)]
  ELSE Install(pkg, World(u), platform, envI)

----------------------------------------------------------------------------
(* The state machine: a caller making one call after another *)

State == [manifest |-> manifest, files |-> files, dirExists |-> dirExists]

EmptyDir == [n \in {} |-> Body("", FALSE)]
Fresh == [manifest |-> Missing, files |-> EmptyDir, dirExists |-> FALSE]

NoCall ==
  [op |-> "none", pkg |-> Package("", ""), err |-> Nil, calls |-> <<>>,
   rel |-> AnyResponse, out |-> <<>>, pre |-> Fresh]

\* the concurrent callers, none of them started
Callers == {1, 2}
Idle ==
  [pc |-> "idle", pkg |-> Package("", ""), packages |-> <<>>, err |-> Nil,
   overlapped |-> FALSE, savedAt |-> 0]
NoCallers == [c \in Callers |-> Idle]

Init ==
  /\ GOOS \in OSNames
  /\ GOARCH \in ArchNames
  /\ manifest = Missing
  /\ files = EmptyDir
  /\ dirExists = FALSE
  /\ last = NoCall
  /\ nOps = 0
  /\ inflight = NoCallers

\* the call returned r: the world is as r left it, and last describes the call
\* (rel: what the release API had to answer, out: what a List returned,
\* pre: the world the call started in)
Returned(op, r, rel, out) ==
  /\ manifest' = r.manifest
  /\ files' = r.files
  /\ dirExists' = r.dirExists
  /\ last' = [op |-> op, pkg |-> r.pkg, err |-> r.err, calls |-> r.calls,
              rel |-> rel, out |-> out, pre |-> State]
  /\ nOps' = nOps + 1
  /\ UNCHANGED <<GOOS, GOARCH, inflight>>

\* the shell is back at its prompt: the outcome of the last command has been
\* printed and the next line can be read
AtPrompt == last.op = "none"

Prompt ==
  /\ ~AtPrompt
  /\ last' = NoCall
  /\ UNCHANGED <<GOOS, GOARCH, manifest, files, dirExists, nOps, inflight>>

DoInstall ==
  /\ AtPrompt
  /\ nOps < MaxOps
  /\ \E user \in Users, repo \in Repos, env \in InstallEnvs :
       \E r \in {Install(Package(user, repo), State, getPlatform, env)} :
         Returned("Install", r, env.rel, <<>>)

DoUninstall ==
  /\ AtPrompt
  /\ nOps < MaxOps
  /\ \E user \in Users, repo \in Repos, env \in UninstallEnvs :
       \E r \in {Uninstall(Package(user, repo), State, env)} :
         Returned("Uninstall", r, AnyResponse, <<>>)

\* Install runs only after an Uninstall in which no step failed
UpdateEnvs ==
  {<<envU, NoFault(AnyResponse)>> : envU \in UninstallEnvs}
  \cup {<<NoFault(AnyResponse), envI>> : envI \in InstallEnvs}

DoUpdate ==
  /\ AtPrompt
  /\ nOps < MaxOps
  /\ \E user \in Users, repo \in Repos, e \in UpdateEnvs :
       \E r \in {Update(Package(user, repo), State, getPlatform, e[1], e[2])} :
         Returned("Update", r, e[2].rel, <<>>)

DoList ==
  /\ AtPrompt
  /\ nOps < MaxOps
  /\ \E openOK \in BOOLEAN :
       LET l == ListInstalledStars(manifest, openOK)
       IN  Returned("List", Result(l.err, State, <<>>, Package("", "")), AnyResponse,
                    l.packages)

Next == DoInstall \/ DoUninstall \/ DoUpdate \/ DoList \/ Prompt

Spec == Init /\ [][Next]_vars

----------------------------------------------------------------------------
(* Two shells in one directory: each runs one Install, nothing orders the  *)
(* steps of one against the steps of the other. A step is one access to    *)
(* the manifest file; what precedes the manifest step is one step.         *)

\* caller c starts an Install: release lookup, asset choice, download
Download(c) ==
  /\ inflight[c].pc = "idle"
  /\ \E user \in Users, repo \in Repos, env \in InstallEnvs :
       \E d \in {InstallDownload(Package(user, repo), State, getPlatform, env)} :
         /\ files' = d.files
         /\ dirExists' = d.dirExists
         /\ inflight' = [inflight EXCEPT ![c] =
              [@ EXCEPT !.pc = IF d.err # Nil THEN "done" ELSE "load",
                        !.pkg = d.pkg, !.err = d.err]]
  /\ nOps' = nOps + 1
  /\ UNCHANGED <<GOOS, GOARCH, manifest, last>>

\* caller c reads the manifest in updateStarsFile; overlapped records that
\* another caller has read it and not yet written it back
Load(c) ==
  /\ inflight[c].pc = "load"
  /\ \E openOK \in BOOLEAN :
       LET l == listInstalledPackages(manifest, openOK) IN
       inflight' = [inflight EXCEPT ![c] =
         IF l.err # Nil /\ ~IsNotExist(l.err)
         THEN [@ EXCEPT !.pc = "done",
                        !.err = Wrap("failed to update stars file",
                                     Wrap("failed to list installed packages", l.err))]
         ELSE [@ EXCEPT !.pc = "save", !.packages = l.packages,
                        !.overlapped = \E o \in Callers \ {c} : inflight[o].pc = "save"]]
  /\ nOps' = nOps + 1
  /\ UNCHANGED <<GOOS, GOARCH, manifest, files, dirExists, last>>

\* caller c appends its record to the list it read and writes the manifest
Save(c) ==
  /\ inflight[c].pc = "save"
  /\ \E outcome \in SaveOutcomes :
       LET s == saveInstalledPackages(manifest,
                                      Append(inflight[c].packages, inflight[c].pkg),
                                      outcome)
       IN  /\ manifest' = s.file
           /\ inflight' = [inflight EXCEPT ![c] =
                [@ EXCEPT !.pc = "done", !.savedAt = nOps + 1,
                          !.err = IF s.err # Nil
                                  THEN Wrap("failed to update stars file", s.err)
                                  ELSE Nil]]
  /\ nOps' = nOps + 1
  /\ UNCHANGED <<GOOS, GOARCH, files, dirExists, last>>

NextConcurrent == \E c \in Callers : Download(c) \/ Load(c) \/ Save(c)

SpecConcurrent == Init /\ [][NextConcurrent]_vars

----------------------------------------------------------------------------
(* Vocabulary of the properties *)

SameIdentity(p, q) == p.User = q.User /\ p.Repo = q.Repo

\* the manifest as the specification reads it: a sequence of records, a
\* missing file standing for the empty sequence, an undecodable file for none
Readable(file) == file.kind # "corrupt"
Records(file) == IF file.kind = "array" THEN file.recs ELSE <<>>

IndicesOf(recs, pkg) == {i \in DOMAIN recs : SameIdentity(recs[i], pkg)}
Lowest(S) == CHOOSE i \in S : \A j \in S : i <= j

HasRecord(file, pkg) == Readable(file) /\ IndicesOf(Records(file), pkg) # {}
NoRecord(file, pkg) == Readable(file) /\ IndicesOf(Records(file), pkg) = {}
FirstRecord(file, pkg) == Records(file)[Lowest(IndicesOf(Records(file), pkg))]

WorldUnchanged == State = last.pre

\* errors that come from the file system refusing an operation, not from
\* what the manifest and the install directory hold
RefusedOpen == Wrap("failed to list installed packages", ErrPermission)
PackageNotFound(pkg) == <<"package not found", pkg.User, pkg.Repo>>
NoCompatibleAsset(token) == <<"no compatible release found for platform">> \o token

----------------------------------------------------------------------------
(* C1 *)

\* C1: when the manifest file does not exist, ListInstalledStars returns an
\* empty sequence and no error; it returns an error only when the manifest
\* exists but does not decode (or cannot be opened at all).
C1_ListOfMissingManifestIsEmpty ==
  last.op = "List" =>
    /\ last.pre.manifest.kind = "missing" => last.err = Nil /\ last.out = <<>>
    /\ last.err \notin {Nil, ErrPermission} => last.pre.manifest.kind = "corrupt"

----------------------------------------------------------------------------
(* C2 *)

\* what a List made right now, with nothing in its way, returns
ListNow == ListInstalledStars(manifest, TRUE)

\* C2: after a successful Install(id), from any prior state, an immediate
\* List returns exactly one record with identity id, and that record carries
\* the resolved tag and the name of the selected asset.
C2_InstallThenListHasExactlyOne ==
  (last.op = "Install" /\ last.err = Nil) =>
    /\ ListNow.err = Nil
    /\ Cardinality(IndicesOf(ListNow.packages, last.pkg)) = 1
    /\ \A i \in IndicesOf(ListNow.packages, last.pkg) :
         /\ ListNow.packages[i].Version = last.rel.doc.TagName
         /\ ListNow.packages[i].File = last.pkg.File

----------------------------------------------------------------------------
(* C3 *)

\* the worlds a successful Install(pkg) makes of the fresh environment
AfterFreshInstall(w, pkg) ==
  \E rel \in GoodResponses :
    LET r == Install(Package(pkg.User, pkg.Repo), Fresh, getPlatform, NoFault(rel))
    IN  r.err = Nil /\ w = World(r)

\* how an Uninstall can fail for no reason but the file system's refusal
UninstallRefusals ==
  { RefusedOpen,
    Wrap("failed to remove executable", ErrPermission),
    Wrap("failed to update stars file", <<"failed to create .stars file">>),
    Wrap("failed to update stars file", <<"failed to write to .stars file">>) }

\* C3: from a fresh environment, Install(id) then Uninstall(id): the
\* Uninstall succeeds (it finds the record and the file; only the file
\* system refusing an operation can stop it), and once it has, List returns
\* the empty sequence without error and the installed file is gone.
C3_UninstallAfterFreshInstall ==
  (last.op = "Uninstall" /\ AfterFreshInstall(last.pre, last.pkg)) =>
    /\ last.err \in {Nil} \cup UninstallRefusals
    /\ last.err = Nil =>
         /\ ListNow = [packages |-> <<>>, err |-> Nil]
         /\ FirstRecord(last.pre.manifest, last.pkg).File \notin DOMAIN files

C3_Witness ==
  /\ last.op = "Uninstall"
  /\ AfterFreshInstall(last.pre, last.pkg)
  /\ last.err = Nil
  /\ nOps = 2

----------------------------------------------------------------------------
(* C4 *)

\* C4: Uninstall(id) when the manifest holds no record of id (a missing
\* manifest being an empty one) fails with the package-not-found error,
\* deletes no file and leaves the manifest as it was.
C4_UninstallAbsentIsNotFound ==
  (last.op = "Uninstall" /\ NoRecord(last.pre.manifest, last.pkg)
     /\ last.err # RefusedOpen) =>
    /\ last.err = PackageNotFound(last.pkg)
    /\ files = last.pre.files
    /\ manifest = last.pre.manifest

----------------------------------------------------------------------------
(* C5 *)

RemovalFailed == last.err # Nil /\ last.err[1] = "failed to remove executable"

\* C5: when the file of the package cannot be deleted (it is already
\* missing, say), Uninstall fails with a removal error and the manifest is
\* as it was; whenever Uninstall has rewritten the manifest, the file had
\* been removed first.
C5_UninstallRemovesBeforeRewriting ==
  (last.op = "Uninstall" /\ HasRecord(last.pre.manifest, last.pkg)
     /\ last.err # RefusedOpen) =>
    LET f == FirstRecord(last.pre.manifest, last.pkg).File IN
    /\ f \notin DOMAIN last.pre.files =>
         last.err = Wrap("failed to remove executable", ErrNotExist)
    /\ RemovalFailed => WorldUnchanged
    /\ manifest # last.pre.manifest =>
         f \in DOMAIN last.pre.files /\ f \notin DOMAIN files

C5_Witness ==
  /\ last.op = "Uninstall"
  /\ HasRecord(last.pre.manifest, last.pkg)
  /\ FirstRecord(last.pre.manifest, last.pkg).File \notin DOMAIN last.pre.files
  /\ RemovalFailed
  /\ Len(Records(manifest)) > 0

----------------------------------------------------------------------------
(* C6 *)

\* the Install step of the Update asked the release API and got a status
\* other than 200
InstallStepGotBadStatus ==
  /\ last.calls = <<ReleaseURL(last.pkg)>>
  /\ last.rel.transport
  /\ last.rel.status # StatusOK

\* C6: Update(id) of an installed package whose Install step gets a non-200
\* status from the release API returns an error and leaves the package
\* absent: no record of id in the manifest, its installed file gone, the
\* prior state not restored.
C6_FailedUpdateLeavesAbsent ==
  (last.op = "Update" /\ HasRecord(last.pre.manifest, last.pkg)
     /\ InstallStepGotBadStatus) =>
    /\ last.err = <<"failed to fetch release: status code">>
    /\ NoRecord(manifest, last.pkg)
    /\ FirstRecord(last.pre.manifest, last.pkg).File \notin DOMAIN files
    /\ State # last.pre

C6_Witness ==
  /\ last.op = "Update"
  /\ HasRecord(last.pre.manifest, last.pkg)
  /\ InstallStepGotBadStatus
  /\ FirstRecord(last.pre.manifest, last.pkg).File \in DOMAIN last.pre.files

----------------------------------------------------------------------------
(* C7 *)

\* a pair is unrecognized when the runtime could name only "unknown" for
\* its operating system or for its architecture
Recognized(os, arch) == os # "unknown" /\ arch # "unknown"

----------------------------------------------------------------------------
(* C8 *)

\* name contains token, letter case ignored
ContainsIgnoringCase(name, token) ==
  \E i \in 0..Len(name) :
    /\ i + Len(token) <= Len(name)
    /\ \A k \in 1..Len(token) : ToLowerChar(name[i + k]) = ToLowerChar(token[k])

MatchingAssets(assets, token) ==
  {i \in DOMAIN assets : ContainsIgnoringCase(Chars(assets[i].Name), token)}

\* the call got as far as the asset list of a release
SawAssets ==
  /\ last.calls # <<>>
  /\ last.rel.transport /\ last.rel.status = StatusOK /\ last.rel.decodes

\* C8: Install selects the asset of lowest index whose name contains the
\* platform token, letter case ignored: that asset names the file, is the
\* one downloaded and the one recorded; with no such asset Install fails
\* with the no-compatible-asset error naming the token, downloads nothing
\* and leaves the manifest as it was.
C8_FirstMatchingAssetIsSelected ==
  (last.op = "Install" /\ SawAssets) =>
    LET assets == last.rel.doc.Assets
        M == MatchingAssets(assets, getPlatform)
    IN  IF M = {}
        THEN /\ last.err = NoCompatibleAsset(getPlatform)
             /\ last.calls = <<ReleaseURL(last.pkg)>>
             /\ WorldUnchanged
        ELSE LET a == assets[Lowest(M)] IN
             /\ last.pkg.File = a.Name
             /\ Len(last.calls) > 1 => last.calls[2] = AssetURL(a.URL)
             /\ last.err = Nil =>
                  /\ Records(manifest)[Len(Records(manifest))].File = a.Name
                  /\ a.Name \in DOMAIN files
                  /\ files[a.Name] = Body(a.URL, TRUE)

C8_Witness ==
  /\ last.op = "Install" /\ SawAssets /\ last.err = Nil
  /\ LET assets == last.rel.doc.Assets
         M == MatchingAssets(assets, getPlatform)
     IN  /\ Cardinality(M) = 2
         /\ \E i \in M, j \in M : assets[i].Name # assets[j].Name
         /\ last.pkg.File = "Tool-Linux-AMD64"

----------------------------------------------------------------------------
(* C9 *)

\* C9: an Install that fails, at whichever step, leaves the manifest holding
\* exactly the records it held before.
C9_FailedInstallKeepsManifest ==
  (last.op = "Install" /\ last.err # Nil) =>
    /\ Readable(manifest) = Readable(last.pre.manifest)
    /\ Records(manifest) = Records(last.pre.manifest)

----------------------------------------------------------------------------
(* C10 *)

\* C10: Update(id) when the manifest holds no record of id fails with the
\* package-not-found error without reaching Install: no request is made, no
\* file created, the manifest as it was.
C10_UpdateAbsentIsNotFound ==
  (last.op = "Update" /\ NoRecord(last.pre.manifest, last.pkg)
     /\ last.err # Wrap("failed to uninstall package", RefusedOpen)) =>
    /\ last.err = Wrap("failed to uninstall package", PackageNotFound(last.pkg))
    /\ last.calls = <<>>
    /\ WorldUnchanged

(* C11 *)

\* the names of the files in the install directory
Installed == DOMAIN files

\* C11: in every state the serialized commands can reach, every record of the
\* manifest names a file that exists in the install directory.
C11_EveryRecordNamesAnInstalledFile ==
  \A i \in DOMAIN Records(manifest) : Records(manifest)[i].File \in Installed

(* C12 *)

\* C12: in every reachable state the manifest holds at most one record for
\* each (user, repo) identity.
C12_AtMostOneRecordPerIdentity ==
  \A i, j \in DOMAIN Records(manifest) :
    SameIdentity(Records(manifest)[i], Records(manifest)[j]) => i = j

----------------------------------------------------------------------------
(* C13 *)

\* the file named by the first record of the last call's identity in the
\* manifest the call found
FirstFile == FirstRecord(last.pre.manifest, last.pkg).File

\* the files named by the records of the last call's identity in the manifest
\* the call found
FilesOfIdentity ==
  {Records(last.pre.manifest)[i].File :
     i \in IndicesOf(Records(last.pre.manifest), last.pkg)}

----------------------------------------------------------------------------
(* C14 *)

\* the last call was an Install whose download succeeded and whose manifest
\* step failed
PersistFailed ==
  /\ last.op = "Install"
  /\ last.err # Nil
  /\ last.err[1] = "failed to update stars file"

\* the complete body of the asset the last Install selected
SelectedBodies ==
  {Body(last.rel.doc.Assets[i].URL, TRUE) :
     i \in {k \in DOMAIN last.rel.doc.Assets :
              last.rel.doc.Assets[k].Name = last.pkg.File}}

\* the file the last Install downloaded is in the install directory, complete
DownloadedFileRemains ==
  /\ last.pkg.File \in DOMAIN files
  /\ files[last.pkg.File] \in SelectedBodies

\* the records of a manifest that name file
Naming(file, name) == {i \in DOMAIN Records(file) : Records(file)[i].File = name}

\* a successful Install leaves the selected asset's body at installDir/file,
\* whatever was there before, and its record last in the manifest
InstallOverwritesAndRecords ==
  (last.op = "Install" /\ last.err = Nil) =>
    /\ DownloadedFileRemains
    /\ Records(manifest) # <<>>
    /\ Records(manifest)[Len(Records(manifest))] = last.pkg

\* as the specification states it: after a download that succeeded and a
\* manifest step that failed, no record of the manifest names the downloaded
\* file
C14_OrphanAfterFailedPersist ==
  /\ PersistFailed =>
       /\ DownloadedFileRemains
       /\ Naming(manifest, last.pkg.File) = {}
  /\ InstallOverwritesAndRecords

\* C14: when the download of an Install succeeds and its manifest step fails,
\* Install returns an error, the downloaded file stays in the install
\* directory and the manifest gains no record: its records are those it held
\* before, or none, so the file is an orphan unless a record already named it.
\* A later successful Install that selects an asset of that name overwrites
\* the file and records it.
C14_NoRecordAddedAfterFailedPersist ==
  /\ PersistFailed =>
       /\ DownloadedFileRemains
       /\ Records(manifest) \in {Records(last.pre.manifest), <<>>}
       /\ Naming(last.pre.manifest, last.pkg.File) = {} =>
            Naming(manifest, last.pkg.File) = {}
  /\ InstallOverwritesAndRecords

\* a download that succeeded, a manifest step that failed, and the file left
\* with no record naming it
C14_Witness ==
  /\ PersistFailed
  /\ DownloadedFileRemains
  /\ Naming(manifest, last.pkg.File) = {}
  /\ last.pkg.File \notin DOMAIN last.pre.files

\* a successful Install over an orphan left with another release's body
C14_OverwriteWitness ==
  /\ last.op = "Install"
  /\ last.err = Nil
  /\ last.pkg.File \in DOMAIN last.pre.files
  /\ last.pre.files[last.pkg.File].complete
  /\ last.pre.files[last.pkg.File] # files[last.pkg.File]
  /\ Naming(last.pre.manifest, last.pkg.File) = {}

----------------------------------------------------------------------------
(* C15 *)

\* the manifest file exists and does not decode
Undecodable(file) == file.kind = "corrupt"

DecodeFailure == <<"failed to decode .stars file">>

\* C15: when the manifest exists and does not decode, List, Uninstall, Update
\* and Install (which can then fail no later than its manifest step) return an
\* error and leave the manifest file as it is; Uninstall and Update delete no
\* file.
C15_UndecodableManifestIsNeverOverwritten ==
  (last.op # "none" /\ Undecodable(last.pre.manifest)) =>
    /\ last.err # Nil
    /\ manifest = last.pre.manifest
    /\ last.op \in {"Uninstall", "Update"} => files = last.pre.files
    /\ last.op = "List" => last.out = <<>>
    /\ PersistFailed =>
         last.err[2] = "failed to list installed packages"

\* an Install whose download succeeded over a manifest that does not decode:
\* its manifest step reports the decode failure
C15_Witness ==
  /\ PersistFailed
  /\ Undecodable(last.pre.manifest)
  /\ DownloadedFileRemains
  /\ last.err = Wrap("failed to update stars file",
                     Wrap("failed to list installed packages", DecodeFailure))
  /\ manifest = last.pre.manifest

\* an Update over a manifest that does not decode
C15_UpdateWitness ==
  /\ last.op = "Update"
  /\ Undecodable(last.pre.manifest)
  /\ DOMAIN last.pre.files # {}
  /\ last.err = Wrap("failed to uninstall package",
                     Wrap("failed to list installed packages", DecodeFailure))

----------------------------------------------------------------------------
(* C16 *)

\* both concurrent Installs have returned nil, for two different identities
BothInstalled ==
  /\ \A c \in Callers : inflight[c].pc = "done" /\ inflight[c].err = Nil
  /\ \A c, d \in Callers :
       c # d => ~SameIdentity(inflight[c].pkg, inflight[d].pkg)

\* the caller that wrote the manifest last, and the one that wrote it first
LastWriter == CHOOSE c \in Callers : \A d \in Callers : inflight[d].savedAt <= inflight[c].savedAt
FirstWriter == CHOOSE c \in Callers : \A d \in Callers : inflight[c].savedAt <= inflight[d].savedAt

\* one caller read the manifest between the other's read and write
Interleaved == \E c \in Callers : inflight[c].overlapped

\* C16: two Installs of different identities started in an empty install
\* directory, both returning success: when one reads the manifest between
\* the other's read and write, the manifest ends with the single record of
\* the caller that wrote last; when each reads and writes without the other
\* in between, the manifest ends with both records, in the order written.
C16_LastWriterWins ==
  BothInstalled =>
    IF Interleaved
    THEN Records(manifest) = <<inflight[LastWriter].pkg>>
    ELSE Records(manifest) = <<inflight[FirstWriter].pkg, inflight[LastWriter].pkg>>

\* both Installs returned success, both files are in the install directory,
\* and the manifest holds one record
C16_Witness ==
  /\ BothInstalled
  /\ Interleaved
  /\ Len(Records(manifest)) = 1
  /\ \A c \in Callers : inflight[c].pkg.File \in DOMAIN files

\* both Installs returned success one after the other
C16_SerialWitness ==
  /\ BothInstalled
  /\ ~Interleaved
  /\ Len(Records(manifest)) = 2

----------------------------------------------------------------------------
(* C17 *)

\* the records of recs whose identity is not pkg's, in their order
OtherRecords(recs, pkg) == SelectSeq(recs, LAMBDA p : ~SameIdentity(p, pkg))

\* C17: no record is modified in place: a successful Install leaves the
\* records it found unchanged and in order and adds exactly one record, its
\* own, after them; a successful Uninstall(id) leaves exactly the records of
\* the other identities, unchanged and in their relative order.
C17_RecordsAreOnlyAppendedOrRemoved ==
  /\ (last.op = "Install" /\ last.err = Nil) =>
       Records(manifest) = Append(Records(last.pre.manifest), last.pkg)
  /\ (last.op = "Uninstall" /\ last.err = Nil) =>
       Records(manifest) = OtherRecords(Records(last.pre.manifest), last.pkg)

\* a successful Install into a manifest that already held a record
C17_Witness ==
  /\ last.op = "Install"
  /\ last.err = Nil
  /\ Len(Records(last.pre.manifest)) >= 1
  /\ Len(Records(manifest)) = Len(Records(last.pre.manifest)) + 1
  /\ Records(manifest)[1] = Records(last.pre.manifest)[1]
  /\ Records(manifest)[1] # last.pkg

\* a successful Uninstall that leaves a record of another identity behind
C17_UninstallWitness ==
  /\ last.op = "Uninstall"
  /\ last.err = Nil
  /\ Records(manifest) # <<>>
  /\ Len(Records(manifest)) < Len(Records(last.pre.manifest))

----------------------------------------------------------------------------
(* C18 *)

\* C18: after a successful Update(id) the manifest holds exactly one record
\* of id; it is the last record, its version is the tag of the release the
\* Update resolved, and its file exists in the install directory. This is so
\* however many records of id the manifest held before.
C18_UpdateLeavesOneLatestRecord ==
  (last.op = "Update" /\ last.err = Nil) =>
    LET recs == Records(manifest) IN
    /\ Cardinality(IndicesOf(recs, last.pkg)) = 1
    /\ IndicesOf(recs, last.pkg) = {Len(recs)}
    /\ recs[Len(recs)] = last.pkg
    /\ last.pkg.Version = last.rel.doc.TagName
    /\ last.pkg.File \in DOMAIN files

\* a successful Update of an identity that had two records, to a release
\* with another tag than the first of them
C18_Witness ==
  /\ last.op = "Update"
  /\ last.err = Nil
  /\ Cardinality(IndicesOf(Records(last.pre.manifest), last.pkg)) = 2
  /\ FirstRecord(last.pre.manifest, last.pkg).Version # last.rel.doc.TagName
  /\ Cardinality(IndicesOf(Records(manifest), last.pkg)) = 1

----------------------------------------------------------------------------
(* C19 *)

\* the last call was an Install whose asset download failed with err
DownloadFailedWith(err) ==
  /\ last.op = "Install"
  /\ last.err = Wrap("failed to download executable", err)

\* the cut-short body of the asset the last Install selected
PartialBodies ==
  {Body(last.rel.doc.Assets[i].URL, FALSE) :
     i \in {k \in DOMAIN last.rel.doc.Assets :
              last.rel.doc.Assets[k].Name = last.pkg.File}}

\* C19: Install does not clean up after a failed download. When the asset
\* request is answered with a status other than 200 the install directory
\* holds the files it held, each unmodified; when writing the body fails the
\* cut-short file is left at installDir/file, in place of whatever was there,
\* every other file as it was; in both cases the manifest is unchanged.
C19_FailedDownloadIsNotCleanedUp ==
  /\ DownloadFailedWith(<<"failed to download file: status code">>) =>
       /\ files = last.pre.files
       /\ manifest = last.pre.manifest
  /\ DownloadFailedWith(<<"failed to write file">>) =>
       /\ DOMAIN files = DOMAIN last.pre.files \cup {last.pkg.File}
       /\ files[last.pkg.File] \in PartialBodies
       /\ \A n \in DOMAIN files \ {last.pkg.File} : files[n] = last.pre.files[n]
       /\ manifest = last.pre.manifest

\* a body cut short over a complete file that a record of the manifest names
C19_Witness ==
  /\ DownloadFailedWith(<<"failed to write file">>)
  /\ last.pkg.File \in DOMAIN last.pre.files
  /\ last.pre.files[last.pkg.File].complete
  /\ ~files[last.pkg.File].complete
  /\ Naming(manifest, last.pkg.File) # {}

\* an asset request answered with another status than 200, the install
\* directory holding a file at the destination
C19_StatusWitness ==
  /\ DownloadFailedWith(<<"failed to download file: status code">>)
  /\ last.pkg.File \in DOMAIN files

====
